---- MODULE Spec2Model ----
(***************************************************************************)
(* Model of src/ts/utils.ts of the WebRTC adapter: the peer-connection     *)
(* event wrapper (wrapPeerConnectionEvent), the logging / deprecation      *)
(* toggles (disableLog, disableWarnings, log, deprecated) and the browser  *)
(* detector (extractVersion, detectBrowser).                               *)
(*                                                                         *)
(* Three specifications share the module:                                  *)
(*   Spec        one patched RTCPeerConnection instance and its event      *)
(*               source (addEventListener, removeEventListener, the        *)
(*               on<event> accessor, delivery of events);                  *)
(*   SpecFlags   the two module-level flags and the four functions that    *)
(*               read or write them;                                       *)
(*   SpecDetect  the pure functions extractVersion and detectBrowser,      *)
(*               applied to inputs drawn from bounded sets.                *)
(***************************************************************************)
EXTENDS Integers, Sequences, FiniteSets

VARIABLES
    \* ---- Spec: one patched RTCPeerConnection instance
    pc,          \* the instance: its listener list, _eventMap and _on<event>
    onRegs,      \* identities of the closures created through the on<event> setter
    lastOp,      \* the last registration operation performed on the instance
    calls,       \* application callbacks invoked by the last delivery, in order
    delivered,   \* the event of the last delivery
    \* ---- SpecFlags: module-level flags and their environment
    logDisabled_,          \* utils.ts line 9
    deprecationWarnings_,  \* utils.ts line 10
    windowIsObject,        \* typeof window === "object" in this runtime
    consoleLogIsFunction,  \* typeof console.log === "function" in this runtime
    ret,                   \* value returned by the last call
    out,                   \* console.log calls made by the last call
    warned,                \* console.warn calls made by the last call
    lastCall,              \* the last call and its argument
    lastDisableLog,        \* argument of the last successful disableLog call
    lastDisableWarnings,   \* argument of the last successful disableWarnings call
    \* ---- SpecDetect: inputs and results of the pure functions
    input,       \* the arguments of the function to apply
    result       \* what the function returned (or that it threw)

eventVars == <<pc, onRegs, lastOp, calls, delivered>>
flagVars == <<logDisabled_, deprecationWarnings_, windowIsObject,
              consoleLogIsFunction, ret, out, warned, lastCall,
              lastDisableLog, lastDisableWarnings>>
detectVars == <<input, result>>
vars == <<eventVars, flagVars, detectVars>>

(***************************************************************************)
(* Bounds.                                                                 *)
(***************************************************************************)
\* Number of wrappedCallback closures alive at one time.
MaxWrapped == 2

(***************************************************************************)
(* EventWrapper: wrapPeerConnectionEvent(window, eventNameToWrap, wrapper) *)
(***************************************************************************)
eventNameToWrap == "track"
EventNames == {"track", "other"}

\* Application callbacks.  f and g are two distinct function objects with
\* the same source text (two evaluations of one function expression); h has
\* a different text.
Callbacks == {"f", "g", "h"}

\* The property key a callback is coerced to in this._eventMap[cb]: a
\* function used as a property name is converted with ToString, which yields
\* its source text.
PropertyKey(cb) ==
    IF cb \in {"f", "g"} THEN "function(e){handle(e)}" ELSE "function(e){other(e)}"

\* The registrations the application asks for: any callback for the wrapped
\* event, and one callback for an event that is not wrapped.
Registrations ==
    [name : {eventNameToWrap}, cb : Callbacks] \cup {[name |-> "other", cb |-> "h"]}

\* The value null, assignable to on<event>.
Null == "null"
HandlerValues == Callbacks \cup {Null}
Truthy(cb) == cb # Null

\* Raw events produced by the underlying event source.
RawEvents == {[ev |-> "e1", wrapped |-> FALSE], [ev |-> "e2", wrapped |-> FALSE]}

\* The wrapper function handed to wrapPeerConnectionEvent: returns the
\* modified event object.
wrapper(e) == [ev |-> e.ev, wrapped |-> TRUE]

\* Listener objects known to the event source: an application callback
\* registered as it is, or a wrappedCallback closure (line 50) over cb.
RawListener(cb) == [kind |-> "raw", cb |-> cb, id |-> 0]
WrappedListener(cb, id) == [kind |-> "wrapped", cb |-> cb, id |-> id]

\* A wrappedCallback that forgets the wrapper: cb(e).
InvokeListenerUnwrapped(fn, e) == [cb |-> fn.cb, arg |-> e]

\* wrappedCallback(e), line 50-52: cb(wrapper(e)); a callback registered as
\* it is receives the raw event.  The result is the call made.
InvokeListener(fn, e) ==
    IF fn.kind = "wrapped"
    THEN [cb |-> fn.cb, arg |-> wrapper(e)]
    ELSE [cb |-> fn.cb, arg |-> e]

\* EventTarget.addEventListener of the platform: a listener already in the
\* list for that event is not added again.
nativeAddEventListener(ls, name, fn) ==
    IF \E i \in DOMAIN ls : ls[i] = [name |-> name, fn |-> fn]
    THEN ls
    ELSE Append(ls, [name |-> name, fn |-> fn])

\* EventTarget.removeEventListener of the platform.
nativeRemoveEventListener(ls, name, fn) ==
    SelectSeq(ls, LAMBDA x : x # [name |-> name, fn |-> fn])

\* this._eventMap: a plain object, that is a map from property keys to
\* values, held as a set of [key, fn] pairs with at most one pair per key.
MapHas(m, k) == \E p \in m : p.key = k
MapGet(m, k) == (CHOOSE p \in m : p.key = k).fn
MapSet(m, k, fn) == {p \in m : p.key # k} \cup {[key |-> k, fn |-> fn]}
MapDelete(m, k) == {p \in m : p.key # k}

\* The wrappedCallback closures the instance still refers to, from its
\* listener list or from _eventMap, by identity.
LiveIds(p) ==
    {p.listeners[i].fn.id : i \in {j \in DOMAIN p.listeners :
                                      p.listeners[j].fn.kind = "wrapped"}}
    \cup {q.fn.id : q \in p.eventMap.entries}

\* The identity of a closure created now: one that no live closure has.
CanWrap(p) == \E i \in 1..MaxWrapped : i \notin LiveIds(p)
FreshId(p) ==
    CHOOSE i \in 1..MaxWrapped :
        i \notin LiveIds(p) /\ \A j \in 1..MaxWrapped : j \notin LiveIds(p) => i <= j

\* proto.addEventListener, lines 46-59.
addEventListener(p, nativeEventName, cb) ==
    IF nativeEventName # eventNameToWrap
    THEN [p EXCEPT !.listeners =
              nativeAddEventListener(p.listeners, nativeEventName, RawListener(cb))]
    ELSE LET wrappedCallback == WrappedListener(cb, FreshId(p))
         IN  [p EXCEPT
                !.eventMap = [exists |-> TRUE,
                              entries |-> MapSet(p.eventMap.entries,
                                                 PropertyKey(cb), wrappedCallback)],
                !.listeners = nativeAddEventListener(p.listeners, nativeEventName,
                                                     wrappedCallback)]

\* The guard of proto.removeEventListener, lines 63-67, negated: the call
\* takes the unwrapping path.
FindsEntry(p, nativeEventName, cb) ==
    /\ nativeEventName = eventNameToWrap
    /\ p.eventMap.exists
    /\ MapHas(p.eventMap.entries, PropertyKey(cb))

\* proto.removeEventListener, lines 62-76.
removeEventListener(p, nativeEventName, cb) ==
    IF ~FindsEntry(p, nativeEventName, cb)
    THEN [p EXCEPT !.listeners =
              nativeRemoveEventListener(p.listeners, nativeEventName, RawListener(cb))]
    ELSE LET unwrappedCb == MapGet(p.eventMap.entries, PropertyKey(cb))
         IN  [p EXCEPT
                !.eventMap.entries = MapDelete(p.eventMap.entries, PropertyKey(cb)),
                !.listeners = nativeRemoveEventListener(p.listeners, nativeEventName,
                                                        unwrappedCb)]

\* The getter of on<eventNameToWrap>, lines 79-81.
onGetter(p) == p.on

\* The first half of the setter of on<eventNameToWrap>, lines 83-89: a
\* stored handler is unregistered and forgotten.
onSetterRemove(p) ==
    IF Truthy(p.on)
    THEN [removeEventListener(p, eventNameToWrap, p.on) EXCEPT !.on = Null]
    ELSE p

\* The setter of on<eventNameToWrap>, lines 82-96.
onSetter(p, cb) ==
    IF Truthy(cb)
    THEN addEventListener([onSetterRemove(p) EXCEPT !.on = cb], eventNameToWrap, cb)
    ELSE onSetterRemove(p)

\* What the event source does when an event of the given name occurs: it
\* invokes the listeners registered for the name, in registration order.
RECURSIVE DeliverCalls(_, _, _)
DeliverCalls(ls, name, e) ==
    IF ls = <<>> THEN <<>>
    ELSE LET rest == DeliverCalls(Tail(ls), name, e)
         IN  IF Head(ls).name = name
             THEN <<InvokeListener(Head(ls).fn, e)>> \o rest
             ELSE rest

\* The invocations of cb among a sequence of calls.
CallsTo(cs, cb) == SelectSeq(cs, LAMBDA c : c.cb = cb)

\* How many times one event of the given name makes the source invoke cb.
Times(p, name, cb) ==
    Len(SelectSeq(p.listeners, LAMBDA x : x.name = name /\ x.fn.cb = cb))

NoDelivery == [name |-> "none", e |-> [ev |-> "none", wrapped |-> FALSE]]
NoOp == [op |-> "new", name |-> "none", cb |-> Null, hit |-> FALSE, fresh |-> FALSE]

\* An instance of the patched RTCPeerConnection after construction (the
\* window has RTCPeerConnection, so line 41 did not return): nothing
\* registered, no _eventMap yet.
NewPeerConnection ==
    [listeners |-> <<>>,
     eventMap |-> [exists |-> FALSE, entries |-> {}],
     on |-> Null]

EventInit ==
    /\ pc = NewPeerConnection
    /\ onRegs = {}
    /\ lastOp = NoOp
    /\ calls = <<>>
    /\ delivered = NoDelivery

\* pc.addEventListener(name, cb).  lastOp.fresh: cb had no registration for
\* the event at the time of the call.
AddEventListener(name, cb) ==
    /\ name = eventNameToWrap => CanWrap(pc)
    /\ pc' = addEventListener(pc, name, cb)
    /\ lastOp' = [op |-> "add", name |-> name, cb |-> cb, hit |-> FALSE,
                  fresh |-> Times(pc, name, cb) = 0]
    /\ calls' = <<>>
    /\ delivered' = NoDelivery
    /\ UNCHANGED <<onRegs, flagVars, detectVars>>

\* pc.removeEventListener(name, cb).  lastOp.hit: the call found an
\* _eventMap entry; lastOp.fresh: it directly follows the registration of cb
\* that was fresh.
RemoveEventListener(name, cb) ==
    /\ pc' = removeEventListener(pc, name, cb)
    /\ lastOp' = [op |-> "remove", name |-> name, cb |-> cb,
                  hit |-> FindsEntry(pc, name, cb),
                  fresh |-> /\ lastOp.op = "add" /\ lastOp.name = name
                            /\ lastOp.cb = cb /\ lastOp.fresh]
    /\ calls' = <<>>
    /\ delivered' = NoDelivery
    /\ onRegs' = onRegs \cap LiveIds(pc')
    /\ UNCHANGED <<flagVars, detectVars>>

\* pc.on<eventNameToWrap> = cb
SetOnHandler(cb) ==
    /\ Truthy(cb) => CanWrap(onSetterRemove(pc))
    /\ pc' = onSetter(pc, cb)
    /\ onRegs' = (onRegs \cap LiveIds(onSetterRemove(pc)))
                 \cup (IF Truthy(cb) THEN {FreshId(onSetterRemove(pc))} ELSE {})
    /\ lastOp' = [op |-> "set", name |-> eventNameToWrap, cb |-> cb, hit |-> FALSE,
                  fresh |-> FALSE]
    /\ calls' = <<>>
    /\ delivered' = NoDelivery
    /\ UNCHANGED <<flagVars, detectVars>>

\* The event source delivers the raw event e under the given name.
Deliver(name, e) ==
    /\ calls' = DeliverCalls(pc.listeners, name, e)
    /\ delivered' = [name |-> name, e |-> e]
    /\ UNCHANGED <<pc, onRegs, lastOp, flagVars, detectVars>>

(***************************************************************************)
(* ProcessFlags, Logger, DeprecationNotifier: disableLog, disableWarnings, *)
(* log, deprecated.                                                        *)
(***************************************************************************)
\* JavaScript values handed to the two setters, with their typeof.
JsTrue == [type |-> "boolean", v |-> "true"]
JsFalse == [type |-> "boolean", v |-> "false"]
JsValues ==
    {JsTrue, JsFalse,
     [type |-> "undefined", v |-> "undefined"],
     [type |-> "object", v |-> "null"],
     [type |-> "number", v |-> "0"],
     [type |-> "number", v |-> "1"],
     [type |-> "string", v |-> "true"],
     [type |-> "string", v |-> ""]}
TypeOf(x) == x.type
ToBool(x) == x = JsTrue

\* Returned values: undefined, a string, or an Error object with a message.
\* Text is held as the sequence of its pieces.
Undefined == [kind |-> "undefined", text |-> <<>>]
Str(t) == [kind |-> "string", text |-> t]
Error(t) == [kind |-> "Error", text |-> t]

\* disableLog, lines 103-109: the new logDisabled_ and the returned value.
disableLog(flag, bool) ==
    IF TypeOf(bool) # "boolean"
    THEN [flag |-> flag,
          ret |-> Error(<<"Argument type: ", TypeOf(bool), ". Please use a boolean.">>)]
    ELSE [flag |-> ToBool(bool),
          ret |-> IF ToBool(bool) THEN Str(<<"adapter.js logging disabled">>)
                                  ELSE Str(<<"adapter.js logging enabled">>)]

\* disableWarnings storing its argument as it is.
disableWarningsNotNegated(flag, bool) ==
    IF TypeOf(bool) # "boolean"
    THEN [flag |-> flag,
          ret |-> Error(<<"Argument type: ", TypeOf(bool), ". Please use a boolean.">>)]
    ELSE [flag |-> ToBool(bool),
          ret |-> Str(<<"adapter.js deprecation warnings ",
                        IF ToBool(bool) THEN "disabled" ELSE "enabled">>)]

\* disableWarnings, lines 115-121: the new deprecationWarnings_ and the
\* returned value.
disableWarnings(flag, bool) ==
    IF TypeOf(bool) # "boolean"
    THEN [flag |-> flag,
          ret |-> Error(<<"Argument type: ", TypeOf(bool), ". Please use a boolean.">>)]
    ELSE [flag |-> ~ToBool(bool),
          ret |-> Str(<<"adapter.js deprecation warnings ",
                        IF ToBool(bool) THEN "disabled" ELSE "enabled">>)]

\* log without the test for a window.
logAnywhere(winIsObject, disabled, consoleLog, args) ==
    IF disabled
    THEN <<>>
    ELSE IF consoleLog THEN <<args>> ELSE <<>>

\* log, lines 123-132: the console.log calls it makes, each with the
\* arguments it was given.
log(winIsObject, disabled, consoleLog, args) ==
    IF winIsObject
    THEN IF disabled
         THEN <<>>
         ELSE IF consoleLog THEN <<args>> ELSE <<>>
    ELSE <<>>

\* deprecated reading the flag the wrong way round.
deprecatedInverted(warnings, oldMethod, newMethod) ==
    IF warnings
    THEN <<>>
    ELSE << <<oldMethod, " is deprecated, please use ", newMethod, " instead.">> >>

\* deprecated, lines 137-142: the console.warn calls it makes, each with
\* its message.
deprecated(warnings, oldMethod, newMethod) ==
    IF ~warnings
    THEN <<>>
    ELSE << <<oldMethod, " is deprecated, please use ", newMethod, " instead.">> >>

\* Arguments given to log and names given to deprecated.
LogArgs == {<<>>, <<"x">>, <<"x", "y">>}
MethodNames == {"a", "b"}

NoCall == [fn |-> "none", args |-> <<>>]

\* Module load, lines 9-10, in a runtime that may or may not have a window.
\* Its console is defined and has a callable warn (deprecated calls it
\* unguarded, line 141); whether console.log is a function is what log tests
\* at line 128.
FlagsInit ==
    /\ logDisabled_ = TRUE
    /\ deprecationWarnings_ = TRUE
    /\ windowIsObject \in BOOLEAN
    /\ consoleLogIsFunction \in BOOLEAN
    /\ ret = Undefined
    /\ out = <<>>
    /\ warned = <<>>
    /\ lastCall = NoCall
    /\ lastDisableLog = "never"
    /\ lastDisableWarnings = "never"

DisableLog(bool) ==
    /\ logDisabled_' = disableLog(logDisabled_, bool).flag
    /\ ret' = disableLog(logDisabled_, bool).ret
    /\ out' = <<>>
    /\ warned' = <<>>
    /\ lastCall' = [fn |-> "disableLog", args |-> <<bool>>]
    /\ lastDisableLog' = IF TypeOf(bool) = "boolean" THEN bool.v ELSE lastDisableLog
    /\ UNCHANGED <<deprecationWarnings_, windowIsObject, consoleLogIsFunction,
                   lastDisableWarnings, eventVars, detectVars>>

DisableWarnings(bool) ==
    /\ deprecationWarnings_' = disableWarnings(deprecationWarnings_, bool).flag
    /\ ret' = disableWarnings(deprecationWarnings_, bool).ret
    /\ out' = <<>>
    /\ warned' = <<>>
    /\ lastCall' = [fn |-> "disableWarnings", args |-> <<bool>>]
    /\ lastDisableWarnings' =
           IF TypeOf(bool) = "boolean" THEN bool.v ELSE lastDisableWarnings
    /\ UNCHANGED <<logDisabled_, windowIsObject, consoleLogIsFunction, lastDisableLog,
                   eventVars, detectVars>>

Log(args) ==
    /\ out' = log(windowIsObject, logDisabled_, consoleLogIsFunction, args)
    /\ ret' = Undefined
    /\ warned' = <<>>
    /\ lastCall' = [fn |-> "log", args |-> args]
    /\ UNCHANGED <<logDisabled_, deprecationWarnings_, windowIsObject,
                   consoleLogIsFunction, lastDisableLog, lastDisableWarnings,
                   eventVars, detectVars>>

Deprecated(oldMethod, newMethod) ==
    /\ warned' = deprecated(deprecationWarnings_, oldMethod, newMethod)
    /\ ret' = Undefined
    /\ out' = <<>>
    /\ lastCall' = [fn |-> "deprecated", args |-> <<oldMethod, newMethod>>]
    /\ UNCHANGED <<logDisabled_, deprecationWarnings_, windowIsObject,
                   consoleLogIsFunction, lastDisableLog, lastDisableWarnings,
                   eventVars, detectVars>>

(***************************************************************************)
(* VersionExtractor and BrowserDetector: extractVersion, detectBrowser.    *)
(***************************************************************************)
\* Most parts a user-agent string drawn is made of.
MaxUaParts == 3

\* A user-agent string is held as the sequence of its tokens: the five
\* vendor markers (each a literal the patterns look for), digits, the dot
\* and the space.  No marker can arise from a concatenation of other tokens.
Digits == {"1", "2"}
Markers == {"Firefox/", "Chrome/", "Chromium/", "Edge/", "AppleWebKit/"}
Tokens == Markers \cup Digits \cup {".", " "}
\* Tokens that are one character long, which the pattern character . matches.
IsChar(t) == t \notin Markers

\* The product tokens browsers put in navigator.userAgent, as they are
\* written: a marker, a version and what follows it.  A legacy Edge string
\* carries AppleWebKit/, Chrome/ and, last, Edge/; a Chrome string carries
\* AppleWebKit/ and Chrome/.
ProductTokens ==
    {<<"Firefox/", "2", "1", ".">>,
     <<"AppleWebKit/", "1", ".">>,
     <<"Chrome/", "2", ".">>,
     <<"Chromium/", "1", "2", ".">>,
     <<"Edge/", "1", ".", "2">>,
     <<"Edge/", "1", " ", "2">>,
     <<"Edge/", "2", "1", "2">>}

\* The parts a user-agent string is put together from: a product token, or
\* any single token.
UaParts == ProductTokens \cup {<<t>> : t \in Tokens}

\* The strings made of at most n parts.
RECURSIVE UaUpTo(_)
UaUpTo(n) ==
    IF n = 0 THEN {<<>>}
    ELSE LET shorter == UaUpTo(n - 1)
         IN  shorter \cup {s \o part : s \in shorter, part \in UaParts}
UserAgents == UaUpTo(MaxUaParts)

\* The regular expressions of detectBrowser, by name:
\*   firefox  /Firefox\/(\d+)\./          chrome  /Chrom(e|ium)\/(\d+)\./
\*   edge     /Edge\/(\d+).(\d+)$/        safari  /AppleWebKit\/(\d+)\./
Patterns == {"firefox", "chrome", "edge", "safari"}
\* The number of capture groups of each.
GroupCount(expr) == IF expr \in {"chrome", "edge"} THEN 2 ELSE 1

\* The number of digits of s from position i on.
RECURSIVE DigitRun(_, _)
DigitRun(s, i) ==
    IF i <= Len(s) /\ s[i] \in Digits THEN 1 + DigitRun(s, i + 1) ELSE 0

\* marker (\d+) \. at position i: the digits are taken greedily, and the
\* dot must follow them.  The result is the run of digits, or <<>>.
DigitsThenDot(s, i) ==
    LET n == DigitRun(s, i + 1)
    IN  IF n >= 1 /\ i + n + 1 <= Len(s) /\ s[i + n + 1] = "."
        THEN SubSeq(s, i + 1, i + n)
        ELSE <<>>

\* Edge\/ (\d+) . (\d+) $ at position i: the first group takes as many
\* digits as leave one character (any) and at least one digit up to the end
\* of the string.  The result is the length of the first group, or 0.
EdgeFirstGroup(s, i) ==
    LET fits == {k \in 1..DigitRun(s, i + 1) :
                    /\ i + k + 2 <= Len(s)
                    /\ IsChar(s[i + k + 1])
                    /\ DigitRun(s, i + k + 2) = Len(s) - (i + k + 1)}
    IN  IF fits = {} THEN 0 ELSE CHOOSE k \in fits : \A j \in fits : j <= k

\* The match array of expr at position i: <<whole match, group 1, ...>>, or
\* <<>> when expr does not match there.
MatchAt(s, expr, i) ==
    CASE expr = "firefox" ->
            IF s[i] = "Firefox/" /\ DigitsThenDot(s, i) # <<>>
            THEN <<SubSeq(s, i, i + Len(DigitsThenDot(s, i)) + 1), DigitsThenDot(s, i)>>
            ELSE <<>>
      [] expr = "safari" ->
            IF s[i] = "AppleWebKit/" /\ DigitsThenDot(s, i) # <<>>
            THEN <<SubSeq(s, i, i + Len(DigitsThenDot(s, i)) + 1), DigitsThenDot(s, i)>>
            ELSE <<>>
      [] expr = "chrome" ->
            IF s[i] \in {"Chrome/", "Chromium/"} /\ DigitsThenDot(s, i) # <<>>
            THEN <<SubSeq(s, i, i + Len(DigitsThenDot(s, i)) + 1),
                   IF s[i] = "Chrome/" THEN <<"e">> ELSE <<"ium">>,
                   DigitsThenDot(s, i)>>
            ELSE <<>>
      [] expr = "edge" ->
            IF s[i] = "Edge/" /\ EdgeFirstGroup(s, i) > 0
            THEN <<SubSeq(s, i, Len(s)),
                   SubSeq(s, i + 1, i + EdgeFirstGroup(s, i)),
                   SubSeq(s, i + EdgeFirstGroup(s, i) + 2, Len(s))>>
            ELSE <<>>

\* uastring.match(expr) for a pattern without the g flag: the match array at
\* the leftmost position where expr matches, or <<>> for null.
Match(s, expr) ==
    LET at == {i \in 1..Len(s) : MatchAt(s, expr, i) # <<>>}
    IN  IF at = {} THEN <<>>
        ELSE MatchAt(s, expr, CHOOSE i \in at : \A j \in at : i <= j)

\* Numbers as extractVersion returns them: null, NaN or an integer.
JsNull == [kind |-> "null", n |-> 0]
NaN == [kind |-> "NaN", n |-> 0]
Num(n) == [kind |-> "number", n |-> n]

DigitValue(t) == IF t = "1" THEN 1 ELSE 2
RECURSIVE Decimal(_)
Decimal(ds) ==
    IF ds = <<>> THEN 0
    ELSE 10 * Decimal(SubSeq(ds, 1, Len(ds) - 1)) + DigitValue(ds[Len(ds)])

\* parseInt(text, 10): the integer written by the leading digits of text
\* (after leading white space), NaN when there is none.
RECURSIVE parseInt(_)
parseInt(text) ==
    IF text # <<>> /\ Head(text) = " " THEN parseInt(Tail(text))
    ELSE IF DigitRun(text, 1) = 0 THEN NaN
         ELSE Num(Decimal(SubSeq(text, 1, DigitRun(text, 1))))

\* match[pos]: an element of the match array, or the text of undefined when
\* pos is past its end (parseInt converts its argument to a string).
MatchElement(match, pos) ==
    IF pos + 1 <= Len(match) THEN match[pos + 1] ELSE <<"undefined">>

\* extractVersion, lines 20-32.  match.length is Len(match).
extractVersion(uastring, expr, pos) ==
    LET match == Match(uastring, expr)
    IN  IF match # <<>> /\ Len(match) >= pos
        THEN parseInt(MatchElement(match, pos))
        ELSE JsNull

\* The window handed to detectBrowser: undefined, null, or an object with or
\* without a navigator and with or without RTCPeerConnection.
NoNavigator == [present |-> FALSE, mozGetUserMedia |-> FALSE,
                webkitGetUserMedia |-> FALSE, mediaDevices |-> FALSE,
                userAgent |-> <<>>]
Navigators ==
    [present : {TRUE}, mozGetUserMedia : BOOLEAN, webkitGetUserMedia : BOOLEAN,
     mediaDevices : BOOLEAN, userAgent : UserAgents]
Windows ==
    [kind : {"undefined", "null"}, RTCPeerConnection : {FALSE},
     navigator : {NoNavigator}]
    \cup [kind : {"object"}, RTCPeerConnection : BOOLEAN,
          navigator : {NoNavigator} \cup Navigators]

Returned(browser, version) ==
    [threw |-> FALSE, browser |-> browser, version |-> version]
\* Reading a property of null or undefined throws.
TypeError == [threw |-> TRUE, browser |-> "TypeError", version |-> JsNull]

\* detectBrowser testing for Safari before Edge.
detectBrowserSafariFirst(window) ==
    LET navigator == window.navigator
    IN  IF window.kind = "undefined" THEN Returned("Not a browser.", JsNull)
        ELSE IF window.kind = "null" THEN TypeError
        ELSE IF ~navigator.present THEN Returned("Not a browser.", JsNull)
        ELSE IF navigator.mozGetUserMedia
        THEN Returned("firefox", extractVersion(navigator.userAgent, "firefox", 1))
        ELSE IF navigator.webkitGetUserMedia
        THEN Returned("chrome", extractVersion(navigator.userAgent, "chrome", 2))
        ELSE IF window.RTCPeerConnection /\ Match(navigator.userAgent, "safari") # <<>>
        THEN Returned("safari", extractVersion(navigator.userAgent, "safari", 1))
        ELSE IF navigator.mediaDevices /\ Match(navigator.userAgent, "edge") # <<>>
        THEN Returned("edge", extractVersion(navigator.userAgent, "edge", 2))
        ELSE Returned("Not a supported browser.", JsNull)

\* detectBrowser, lines 155-211.
detectBrowser(window) ==
    LET navigator == window.navigator
    IN  \* line 164: typeof window === "undefined" || !window.navigator
        IF window.kind = "undefined" THEN Returned("Not a browser.", JsNull)
        ELSE IF window.kind = "null" THEN TypeError
        ELSE IF ~navigator.present THEN Returned("Not a browser.", JsNull)
        ELSE IF navigator.mozGetUserMedia
        THEN Returned("firefox", extractVersion(navigator.userAgent, "firefox", 1))
        ELSE IF navigator.webkitGetUserMedia
        THEN Returned("chrome", extractVersion(navigator.userAgent, "chrome", 2))
        ELSE IF navigator.mediaDevices /\ Match(navigator.userAgent, "edge") # <<>>
        THEN Returned("edge", extractVersion(navigator.userAgent, "edge", 2))
        ELSE IF window.RTCPeerConnection /\ Match(navigator.userAgent, "safari") # <<>>
        THEN Returned("safari", extractVersion(navigator.userAgent, "safari", 1))
        ELSE Returned("Not a supported browser.", JsNull)

\* Capture-group positions handed to extractVersion.
Positions == 1..3

Pending == [threw |-> FALSE, browser |-> "pending", version |-> JsNull]
NoInput == [fn |-> "none"]

DetectInit ==
    /\ \/ \E w \in Windows : input = [fn |-> "detectBrowser", window |-> w]
       \/ \E ua \in UserAgents, expr \in Patterns, pos \in Positions :
             input = [fn |-> "extractVersion", uastring |-> ua,
                      expr |-> expr, pos |-> pos]
    /\ result = Pending

DetectBrowser ==
    /\ input.fn = "detectBrowser"
    /\ result = Pending
    /\ result' = detectBrowser(input.window)
    /\ UNCHANGED <<input, eventVars, flagVars>>

ExtractVersion ==
    /\ input.fn = "extractVersion"
    /\ result = Pending
    /\ result' = Returned("", extractVersion(input.uastring, input.expr, input.pos))
    /\ UNCHANGED <<input, eventVars, flagVars>>

(***************************************************************************)
(* Specifications.                                                         *)
(***************************************************************************)
\* The variables of the other components rest at these values.
EventsIdle ==
    /\ pc = NewPeerConnection
    /\ onRegs = {}
    /\ lastOp = NoOp
    /\ calls = <<>>
    /\ delivered = NoDelivery
FlagsIdle ==
    /\ logDisabled_ = TRUE
    /\ deprecationWarnings_ = TRUE
    /\ windowIsObject = TRUE
    /\ consoleLogIsFunction = TRUE
    /\ ret = Undefined
    /\ out = <<>>
    /\ warned = <<>>
    /\ lastCall = NoCall
    /\ lastDisableLog = "never"
    /\ lastDisableWarnings = "never"
DetectIdle ==
    /\ input = NoInput
    /\ result = Pending

Init == EventInit /\ FlagsIdle /\ DetectIdle
Next ==
    \/ \E r \in Registrations : AddEventListener(r.name, r.cb)
    \/ \E r \in Registrations : RemoveEventListener(r.name, r.cb)
    \/ \E cb \in HandlerValues : SetOnHandler(cb)
    \/ \E name \in EventNames, e \in RawEvents : Deliver(name, e)
Spec == Init /\ [][Next]_vars

InitFlags == FlagsInit /\ EventsIdle /\ DetectIdle
NextFlags ==
    \/ \E bool \in JsValues : DisableLog(bool)
    \/ \E bool \in JsValues : DisableWarnings(bool)
    \/ \E args \in LogArgs : Log(args)
    \/ \E oldMethod \in MethodNames, newMethod \in MethodNames :
          Deprecated(oldMethod, newMethod)
SpecFlags == InitFlags /\ [][NextFlags]_vars

InitDetect == DetectInit /\ EventsIdle /\ FlagsIdle
NextDetect == DetectBrowser \/ ExtractVersion
SpecDetect == InitDetect /\ [][NextDetect]_vars

(***************************************************************************)
(* Properties of the event wrapper, checked under Spec.                    *)
(***************************************************************************)
\* C1: when addEventListener(eventNameToWrap, f) registers a callback f that
\* had no registration, an event e delivered next invokes f exactly once,
\* with wrapper(e) and never with e itself; when removeEventListener(
\* eventNameToWrap, f) follows that registration, an event delivered after
\* it does not invoke f.
C1_RegisterDeliverUnregister ==
    (lastOp.name = eventNameToWrap /\ lastOp.fresh /\ delivered.name = eventNameToWrap)
    => /\ lastOp.op = "add"
          => CallsTo(calls, lastOp.cb) =
                 <<[cb |-> lastOp.cb, arg |-> wrapper(delivered.e)]>>
       /\ lastOp.op = "remove" => CallsTo(calls, lastOp.cb) = <<>>

\* The scenario of C1 has run to its end, with another listener that the
\* second delivery still invoked.
C1_Witness ==
    /\ lastOp.op = "remove" /\ lastOp.name = eventNameToWrap /\ lastOp.fresh
    /\ delivered.name = eventNameToWrap
    /\ calls # <<>>

\* The positions of the listener list that hold a registration made by the
\* on<eventNameToWrap> setter.
OnRegistrations ==
    {i \in DOMAIN pc.listeners : /\ pc.listeners[i].fn.kind = "wrapped"
                                 /\ pc.listeners[i].fn.id \in onRegs}

\* C2: in every state reached by assignments to on<eventNameToWrap>
\* interleaved with addEventListener / removeEventListener, at most one
\* registration made by the setter is active on the event source, and it is
\* the registration of the handler stored last (the one before it was
\* unregistered first).
C2_AtMostOneOnRegistration ==
    /\ Cardinality(OnRegistrations) <= 1
    /\ \A i \in OnRegistrations : pc.listeners[i].fn.cb = pc.on

\* C3: after a removeEventListener(eventNameToWrap, f) that found an
\* _eventMap entry for f, the entry is gone and the event source no longer
\* invokes f when the event is delivered.
C3_RemoveStopsInvocation ==
    (lastOp.op = "remove" /\ lastOp.name = eventNameToWrap /\ lastOp.hit)
    => /\ ~MapHas(pc.eventMap.entries, PropertyKey(lastOp.cb))
       /\ delivered.name = eventNameToWrap => CallsTo(calls, lastOp.cb) = <<>>

\* C4: _eventMap is keyed by callback identity: it holds at most one entry
\* per key, and for two distinct callbacks f and g both registered for the
\* wrapped event, removeEventListener(eventNameToWrap, f) removes the entry
\* found for f and leaves the registrations of g as they were, so that g is
\* still invoked on delivery.
C4_KeyedByIdentity ==
    [][ /\ \A p1 \in pc'.eventMap.entries, p2 \in pc'.eventMap.entries :
              p1.key = p2.key => p1 = p2
        /\ \A f \in Callbacks, g \in Callbacks :
              ( /\ f # g
                /\ lastOp'.op = "remove" /\ lastOp'.name = eventNameToWrap
                /\ lastOp'.cb = f
                /\ Times(pc, eventNameToWrap, f) > 0
                /\ Times(pc, eventNameToWrap, g) > 0 )
              => /\ Times(pc', eventNameToWrap, g) = Times(pc, eventNameToWrap, g)
                 /\ ~MapHas(pc'.eventMap.entries, PropertyKey(f))
      ]_vars

(***************************************************************************)
(* Properties of the flags, checked under SpecFlags.                       *)
(***************************************************************************)
\* C8: disableLog and disableWarnings given a non-boolean return an Error
\* whose message names the type received and leave both flags as they were;
\* given a boolean, each writes its own flag only (disableWarnings the
\* negation of its argument) and returns the string naming the new state.
C8_SettersValidate ==
    [][ /\ lastCall'.fn = "disableLog"
           => IF TypeOf(lastCall'.args[1]) # "boolean"
              THEN /\ ret'.kind = "Error"
                   /\ \E i \in DOMAIN ret'.text : ret'.text[i] = TypeOf(lastCall'.args[1])
                   /\ UNCHANGED <<logDisabled_, deprecationWarnings_>>
              ELSE /\ logDisabled_' = (lastCall'.args[1] = JsTrue)
                   /\ UNCHANGED deprecationWarnings_
                   /\ ret' = IF logDisabled_'
                             THEN Str(<<"adapter.js logging disabled">>)
                             ELSE Str(<<"adapter.js logging enabled">>)
        /\ lastCall'.fn = "disableWarnings"
           => IF TypeOf(lastCall'.args[1]) # "boolean"
              THEN /\ ret'.kind = "Error"
                   /\ \E i \in DOMAIN ret'.text : ret'.text[i] = TypeOf(lastCall'.args[1])
                   /\ UNCHANGED <<logDisabled_, deprecationWarnings_>>
              ELSE /\ deprecationWarnings_' = (lastCall'.args[1] = JsFalse)
                   /\ UNCHANGED logDisabled_
                   /\ ret' = IF deprecationWarnings_'
                             THEN Str(<<"adapter.js deprecation warnings ", "enabled">>)
                             ELSE Str(<<"adapter.js deprecation warnings ", "disabled">>)
      ]_vars

\* A non-boolean was refused after both flags had been moved off their
\* initial values.
C8_Witness ==
    /\ lastCall.fn = "disableWarnings"
    /\ ret.kind = "Error"
    /\ ~logDisabled_
    /\ ~deprecationWarnings_

\* C9 as stated: with a window, log(x) forwards x exactly once if the last
\* successful disableLog call had argument false, and produces nothing if it
\* had argument true or there was none; without a window log produces
\* nothing.
C9_LogFollowsLastDisableLog ==
    lastCall.fn = "log"
    => out = IF windowIsObject /\ lastDisableLog = "false"
             THEN <<lastCall.args>> ELSE <<>>

\* C9 amended: the same, where log forwards only if, in addition,
\* console.log is a function.
C9_LogFollowsLastDisableLogAndConsole ==
    lastCall.fn = "log"
    => out = IF windowIsObject /\ lastDisableLog = "false" /\ consoleLogIsFunction
             THEN <<lastCall.args>> ELSE <<>>

\* log forwarded its arguments after logging was disabled again and then
\* enabled.
C9_Witness ==
    /\ lastCall.fn = "log"
    /\ lastCall.args = <<"x", "y">>
    /\ out = <<lastCall.args>>
    /\ lastDisableWarnings = "true"

\* C10: deprecated(a, b) emits exactly one warning, naming a and b, if the
\* last successful disableWarnings call had argument false or there was
\* none, and emits nothing if it had argument true; what disableLog was
\* called with plays no part.
C10_DeprecatedFollowsLastDisableWarnings ==
    lastCall.fn = "deprecated"
    => warned = IF lastDisableWarnings \in {"never", "false"}
                THEN << <<lastCall.args[1], " is deprecated, please use ",
                          lastCall.args[2], " instead.">> >>
                ELSE <<>>

\* deprecated warned after warnings were switched back on, with logging
\* switched on as well.
C10_Witness ==
    /\ lastCall.fn = "deprecated"
    /\ lastCall.args = <<"a", "b">>
    /\ Len(warned) = 1
    /\ lastDisableWarnings = "false"
    /\ lastDisableLog = "false"

(***************************************************************************)
(* Properties of the detector, checked under SpecDetect.                   *)
(***************************************************************************)
\* The rules of detection in their order: the browser, whether the rule
\* holds of the window, and the pattern and group of the version.
DetectionRules(window) ==
    <<[browser |-> "firefox", holds |-> window.navigator.mozGetUserMedia,
       expr |-> "firefox", pos |-> 1],
      [browser |-> "chrome", holds |-> window.navigator.webkitGetUserMedia,
       expr |-> "chrome", pos |-> 2],
      [browser |-> "edge",
       holds |-> /\ window.navigator.mediaDevices
                 /\ Match(window.navigator.userAgent, "edge") # <<>>,
       expr |-> "edge", pos |-> 2],
      [browser |-> "safari",
       holds |-> /\ window.RTCPeerConnection
                 /\ Match(window.navigator.userAgent, "safari") # <<>>,
       expr |-> "safari", pos |-> 1]>>

\* C5: for a window with a navigator, detectBrowser returns the browser of
\* the first rule that holds, in the order firefox, chrome, edge, safari,
\* with the version extractVersion gives for that rule's pattern and group,
\* and "Not a supported browser." with no version when no rule holds.
C5_FirstRuleWins ==
    (/\ input.fn = "detectBrowser" /\ result # Pending
     /\ input.window.kind = "object" /\ input.window.navigator.present)
    => LET rules == DetectionRules(input.window)
           holding == {i \in DOMAIN rules : rules[i].holds}
       IN  IF holding = {}
           THEN result = Returned("Not a supported browser.", JsNull)
           ELSE LET r == rules[CHOOSE i \in holding : \A j \in holding : i <= j]
                IN  result = Returned(r.browser,
                                      extractVersion(input.window.navigator.userAgent,
                                                     r.expr, r.pos))

\* edge was detected, with its version, from a user agent that also matches
\* the AppleWebKit pattern in a window that has RTCPeerConnection: the edge
\* and the safari rule both hold, and the earlier one won.
C5_Witness ==
    /\ input.fn = "detectBrowser"
    /\ result.browser = "edge"
    /\ result.version.kind = "number"
    /\ input.window.RTCPeerConnection
    /\ Match(input.window.navigator.userAgent, "safari") # <<>>
    /\ Match(input.window.navigator.userAgent, "chrome") # <<>>

\* C6: detectBrowser never raises, and for a window that is undefined or
\* null, or has no navigator, it returns "Not a browser." with no version.
C6_NeverRaises ==
    (input.fn = "detectBrowser" /\ result # Pending)
    => /\ ~result.threw
       /\ (input.window.kind \in {"undefined", "null"}
           \/ ~input.window.navigator.present)
          => result = Returned("Not a browser.", JsNull)

\* C7: extractVersion returns null when the pattern does not match or the
\* match has fewer capture groups than pos, for every pos >= 1, and
\* otherwise the integer parsed from the text of group pos.
C7_NullWhenGroupMissing ==
    (input.fn = "extractVersion" /\ result # Pending /\ input.pos >= 1)
    => LET match == Match(input.uastring, input.expr)
       IN  result.version =
               IF match = <<>> \/ Len(match) - 1 < input.pos
               THEN JsNull
               ELSE parseInt(match[input.pos + 1])

====
